---- MODULE Spec2Model ----
(***************************************************************************)
(* Model of common/threads/Pthread.h (namespace avd): Mutex,               *)
(* ConditionVariable, LockGuard<M>, LockGuard<pthread_mutex_t> and         *)
(* ScopedThread, each a thin wrapper over one native pthread call.         *)
(*                                                                         *)
(* The wrappers are translated from the header.  The native calls they     *)
(* forward to are modelled by their POSIX behaviour: a default mutex has   *)
(* one owner or none, a condition variable is the set of threads blocked   *)
(* on it, a wait releases the mutex, blocks, and re-acquires the mutex     *)
(* before it returns, and a blocked thread may be woken spuriously.        *)
(***************************************************************************)
EXTENDS Integers, FiniteSets, Sequences, TLC

\* ------------------------------------------------------------- bounds
NumThreads == 2
MaxTime == 1
MaxScopes == 2
MaxDepth == 3
MaxRecursive == 2
MaxWrites == 2
MaxCalls == 3
TicksPerSec == 2

\* ------------------------------------------- native status codes (errno)
EOK == 0
EAGAIN == 11
ENOMEM == 12
EINVAL == 22
ESRCH == 3
EDEADLK == 35
ETIMEDOUT == 110

\* The worker threads, which lock the Mutex and use the ConditionVariable
\* under it, and the thread that constructed both objects, which notifies
\* without holding the Mutex.
Threads == 1..NumThreads
Main == 0
Callers == Threads \cup {Main}
NoThread == -1
TimePoints == 0..MaxTime

VARIABLES
  mutex_,      \* Mutex::mutex_: the owner of the native mutex, NoThread when unlocked
  cond_,       \* ConditionVariable::cond_: the threads blocked on the native condition variable
  cond_init,   \* status pthread_cond_init returned in the constructor (discarded by the code)
  now,         \* CLOCK_MONOTONIC, in ticks
  pc,          \* per thread: "idle", "cs" (holds mutex_), "wait" (blocked on cond_),
               \*   "woken" (unblocked inside the native wait, re-acquiring mutex_)
  op,          \* per thread: the ConditionVariable method it called last ("none" after Lock/Unlock)
  deadline,    \* per thread: the timespec handed to pthread_cond_timedwait, or NoDeadline
  wake,        \* per thread: what ended its native wait: "NotifyOne", "NotifyAll", "spurious",
               \*   "timeout" (deadline passed while blocked), "expired" (deadline passed at the call)
  notified,    \* per thread: while it was blocked in WaitUntil, its deadline not yet passed,
               \*   another thread made a successful NotifyOne call
  native,      \* per thread: status code the native call of its last method returned
  ret,         \* per thread: status code that method returned to the caller
  scopes,      \* per thread: the LockGuard<Mutex> scopes it has entered
  path,        \* per thread: how it left its last LockGuard scope ("none" inside or before one)
  shared,      \* the data the LockGuard scopes protect: the updates made to it
  lock_calls,  \* native lock calls made by LockGuard constructors
  unlock_calls, \* native unlock calls made by LockGuard destructors
  raw_mutex_,  \* LockGuard<pthread_mutex_t>::mutex_: the owner of the raw pthread_mutex_t
               \*   the guards are built on, NoThread when unlocked
  kind,        \* type of that raw mutex
  count,       \* lock count of that raw mutex (above 1 only when it is recursive)
  guards,      \* per thread: its live LockGuard<pthread_mutex_t> objects, innermost last;
               \*   unlock_ is the member, status the native status its constructor got
  last_dtor,   \* per thread: the guard it destroyed last: the status its constructor got
               \*   and the native release calls its destructor made
  obj,         \* per ScopedThread object: "unborn", "alive", "dtor" (its owner is inside the
               \*   destructor, in pthread_join), "dead" (the destructor has returned)
  thread_,     \* per ScopedThread object: ScopedThread::thread_, the state of the native
               \*   thread: "none", "running", "terminated", "joined"
  written,     \* per ScopedThread object: the writes its entry function has made to its cell
               \*   of shared memory (the k-th write stores k)
  visible,     \* per ScopedThread object: the value of that cell as the owner's thread sees it
  seen,        \* per ScopedThread object: the value the owner read from the cell last
  mutex_init,  \* status pthread_mutex_init returned in Mutex() (discarded by the code)
  create_status, \* per ScopedThread object: status pthread_create returns in its
               \*   constructor (discarded by the code)
  invoked,     \* tally, per wrapper operation: the invocations of it made so far
  calls,       \* tally, per native function: the calls wrapper operations made of it
  lock_status  \* tally, per thread: status the native call of its last Mutex::Lock
               \*   returned (discarded by the code)

initVars == <<mutex_init, cond_init, create_status>>
condVars == <<cond_, initVars, now, op, deadline, wake, notified, native, ret>>
guardVars == <<scopes, path, shared, lock_calls, unlock_calls>>
rawVars == <<raw_mutex_, kind, count, guards, last_dtor>>
threadVars == <<obj, thread_, written, visible, seen>>
notCond == <<guardVars, rawVars, threadVars>>
\* The tally of invocations and native calls, kept by the specifications that
\* are about call counts and left alone by the others.
callVars == <<invoked, calls, lock_status>>
vars == <<mutex_, pc, condVars, guardVars, rawVars, threadVars, callVars>>

NoDeadline == [tv_sec |-> -1, tv_nsec |-> 0]
NoStatus == -1

\* The wrapper operations of the header, and the native functions they
\* forward to.
Wrappers ==
  {"Mutex::Lock", "Mutex::Unlock", "NotifyOne", "NotifyAll", "Wait", "WaitUntil",
   "LockGuard", "~LockGuard", "LockGuard<pthread_mutex_t>", "~LockGuard<pthread_mutex_t>",
   "ScopedThread", "~ScopedThread"}

Natives ==
  {"pthread_mutex_lock", "pthread_mutex_unlock", "pthread_cond_signal",
   "pthread_cond_broadcast", "pthread_cond_wait", "pthread_cond_timedwait",
   "pthread_create", "pthread_join"}

\* ------------------------------------------------------------ time
\* MonotonicTimePoint::ToTimespec: ticks to (seconds, sub-second ticks).
ToTimespec(tp) == [tv_sec |-> tp \div TicksPerSec, tv_nsec |-> tp % TicksPerSec]

\* The native comparison of two timespecs: a is not later than b.
TimespecLE(a, b) ==
  \/ a.tv_sec < b.tv_sec
  \/ a.tv_sec = b.tv_sec /\ a.tv_nsec <= b.tv_nsec

\* clock_gettime(CLOCK_MONOTONIC) as the native timed wait reads it.
ClockNow == ToTimespec(now)

Expired(ts) == TimespecLE(ts, ClockNow)

\* ------------------------------------------------------- native mutex
\* pthread_mutex_lock on a default mutex: blocks until unlocked, then owns it.
\* On a mutex whose pthread_mutex_init failed the call may instead come back
\* with an error (EINVAL), the mutex not locked.
pthread_mutex_lock(t) ==
  \/ /\ mutex_ = NoThread
     /\ mutex_' = t
  \/ /\ mutex_init # EOK
     /\ mutex_' = mutex_

\* pthread_mutex_unlock by the owner releases the mutex.  By a thread that
\* does not own it the call is undefined for a default mutex: it is refused,
\* or it unlocks the mutex under its owner.
pthread_mutex_unlock(t) ==
  \/ /\ mutex_ = t
     /\ mutex_' = NoThread
  \/ /\ mutex_ # t
     /\ mutex_' \in {mutex_, NoThread}

\* Mutex::Lock / Mutex::Unlock: forward, result discarded.
\* Mutant of Lock: returns without the native lock call.
Lock_skipped(t) == mutex_' = mutex_

Lock(t) == pthread_mutex_lock(t)

Unlock(t) == pthread_mutex_unlock(t)

\* -------------------------------------------- native condition variable
\* The sets of threads one pthread_cond_signal may unblock: one blocked
\* thread, any of them; none when nobody is blocked.
pthread_cond_signal == IF cond_ = {} THEN {{}} ELSE {{w} : w \in cond_}

\* pthread_cond_broadcast unblocks every blocked thread.
pthread_cond_broadcast == {cond_}

\* A condition variable whose pthread_cond_init failed is used all the same:
\* the call either fails with EINVAL and does nothing, or acts on the handle
\* as if it were initialised.
CondStatuses == IF cond_init = EOK THEN {EOK} ELSE {EOK, EINVAL}

\* Mutant of Return: the status collapsed to success / failure.
Return_flag(s) == IF s = EOK THEN 0 ELSE 1

\* What the wrapper hands back for the native status s: `return pthread_...`.
Return(s) == s

\* t calls a notify method by which the native call unblocks one of `wakes`.
Notify(t, method, wakes) ==
  /\ t = Main \/ pc[t] = "cs"
  /\ \E s \in CondStatuses :
       /\ native' = [native EXCEPT ![t] = s]
       /\ ret' = [ret EXCEPT ![t] = Return(s)]
       /\ \E W \in (IF s = EOK THEN wakes ELSE {{}}) :
            /\ cond_' = cond_ \ W
            /\ pc' = [w \in Callers |-> IF w \in W THEN "woken" ELSE pc[w]]
            /\ wake' = [w \in Callers |->
                 IF w \in W THEN method ELSE IF w = t THEN "none" ELSE wake[w]]
            /\ deadline' = [w \in Callers |-> IF w \in W THEN NoDeadline ELSE deadline[w]]
       /\ notified' = [w \in Callers |->
            IF /\ method = "NotifyOne" /\ s = EOK /\ w # t
               /\ pc[w] = "wait" /\ op[w] = "WaitUntil" /\ ~Expired(deadline[w])
            THEN TRUE ELSE IF w = t THEN FALSE ELSE notified[w]]
  /\ op' = [op EXCEPT ![t] = method]
  /\ UNCHANGED <<notCond, mutex_, initVars, now>>

\* Mutant of NotifyAll: the notification also releases the Mutex.
NotifyAll_unlocking(t) ==
  /\ t = Main \/ pc[t] = "cs"
  /\ \E W \in pthread_cond_broadcast :
       /\ cond_' = cond_ \ W
       /\ pc' = [w \in Callers |-> IF w \in W THEN "woken" ELSE pc[w]]
       /\ wake' = [w \in Callers |->
            IF w \in W THEN "NotifyAll" ELSE IF w = t THEN "none" ELSE wake[w]]
       /\ deadline' = [w \in Callers |-> IF w \in W THEN NoDeadline ELSE deadline[w]]
  /\ native' = [native EXCEPT ![t] = EOK]
  /\ ret' = [ret EXCEPT ![t] = EOK]
  /\ notified' = [notified EXCEPT ![t] = FALSE]
  /\ op' = [op EXCEPT ![t] = "NotifyAll"]
  /\ mutex_' = NoThread
  /\ UNCHANGED <<notCond, initVars, now>>

\* Mutant of NotifyOne: forwards to the broadcast.
NotifyOne_broadcast(t) == Notify(t, "NotifyOne", pthread_cond_broadcast)

\* Mutant of NotifyOne: signals a condition variable nobody waits on.
NotifyOne_elsewhere(t) == Notify(t, "NotifyOne", {{}})

\* ConditionVariable::NotifyOne: return pthread_cond_signal(&cond_).
NotifyOne(t) == Notify(t, "NotifyOne", pthread_cond_signal)

\* Mutant of NotifyAll: forwards to the signal.
NotifyAll_signal(t) == Notify(t, "NotifyAll", pthread_cond_signal)

\* ConditionVariable::NotifyAll: return pthread_cond_broadcast(&cond_).
NotifyAll(t) == Notify(t, "NotifyAll", pthread_cond_broadcast)

\* The native wait fails at once (EINVAL on an unusable handle): the mutex
\* stays with the caller and the status comes straight back.
WaitFails(t, method) ==
  /\ cond_init # EOK
  /\ op' = [op EXCEPT ![t] = method]
  /\ wake' = [wake EXCEPT ![t] = "none"]
  /\ notified' = [notified EXCEPT ![t] = FALSE]
  /\ native' = [native EXCEPT ![t] = EINVAL]
  /\ ret' = [ret EXCEPT ![t] = Return(EINVAL)]
  /\ UNCHANGED <<notCond, mutex_, cond_, initVars, now, pc, deadline>>

\* The native wait begins: the caller joins the blocked set and gives the
\* mutex up in one atomic step (POSIX: "atomically release mutex and cause
\* the calling thread to block").
BlockOn(t, method, ts) ==
  /\ pthread_mutex_unlock(t)
  /\ cond_' = cond_ \cup {t}
  /\ pc' = [pc EXCEPT ![t] = "wait"]
  /\ op' = [op EXCEPT ![t] = method]
  /\ deadline' = [deadline EXCEPT ![t] = ts]
  /\ wake' = [wake EXCEPT ![t] = "none"]
  /\ notified' = [notified EXCEPT ![t] = FALSE]
  /\ native' = [native EXCEPT ![t] = NoStatus]
  /\ ret' = [ret EXCEPT ![t] = NoStatus]
  /\ UNCHANGED <<notCond, initVars, now>>

\* Mutant of Wait: blocks on cond_ without handing the associated mutex to
\* the native wait, so the mutex stays locked.
Wait_keeps_mutex(t) ==
  /\ pc[t] = "cs"
  /\ cond_' = cond_ \cup {t}
  /\ pc' = [pc EXCEPT ![t] = "wait"]
  /\ op' = [op EXCEPT ![t] = "Wait"]
  /\ wake' = [wake EXCEPT ![t] = "none"]
  /\ notified' = [notified EXCEPT ![t] = FALSE]
  /\ native' = [native EXCEPT ![t] = NoStatus]
  /\ ret' = [ret EXCEPT ![t] = NoStatus]
  /\ UNCHANGED <<notCond, mutex_, initVars, now, deadline>>

\* Mutant of Wait: the condition variable remembers a notification made
\* while nobody was blocked, and the next wait consumes it without blocking.
Wait_latched(t) ==
  /\ pc[t] = "cs"
  /\ IF \E c \in Callers \ {t} : op[c] \in {"NotifyOne", "NotifyAll"} /\ ret[c] = EOK
       THEN /\ pthread_mutex_unlock(t)
            /\ pc' = [pc EXCEPT ![t] = "woken"]
            /\ op' = [op EXCEPT ![t] = "Wait"]
            /\ wake' = [wake EXCEPT ![t] = "NotifyAll"]
            /\ notified' = [notified EXCEPT ![t] = FALSE]
            /\ native' = [native EXCEPT ![t] = NoStatus]
            /\ ret' = [ret EXCEPT ![t] = NoStatus]
            /\ UNCHANGED <<notCond, cond_, initVars, now, deadline>>
       ELSE BlockOn(t, "Wait", NoDeadline)

\* ConditionVariable::Wait: pthread_cond_wait(&cond_, mutex_->GetMutex()).
Wait(t) ==
  /\ pc[t] = "cs"
  /\ \/ BlockOn(t, "Wait", NoDeadline)
     \/ WaitFails(t, "Wait")

\* The native timed wait finds the deadline passed at the call.  POSIX has it
\* release and re-acquire the mutex all the same; an implementation may also
\* return at once without letting the mutex go.
TimedOutAtCall(t) ==
  /\ op' = [op EXCEPT ![t] = "WaitUntil"]
  /\ notified' = [notified EXCEPT ![t] = FALSE]
  /\ \/ /\ pthread_mutex_unlock(t)
        /\ pc' = [pc EXCEPT ![t] = "woken"]
        /\ wake' = [wake EXCEPT ![t] = "expired"]
        /\ native' = [native EXCEPT ![t] = NoStatus]
        /\ ret' = [ret EXCEPT ![t] = NoStatus]
     \/ /\ wake' = [wake EXCEPT ![t] = "expired"]
        /\ native' = [native EXCEPT ![t] = ETIMEDOUT]
        /\ ret' = [ret EXCEPT ![t] = Return(ETIMEDOUT)]
        /\ UNCHANGED <<notCond, mutex_, pc>>
  /\ UNCHANGED <<notCond, cond_, initVars, now, deadline>>

\* Mutant of WaitUntil: forwards to the untimed wait, ignoring the deadline.
WaitUntil_untimed(t, tp) ==
  /\ pc[t] = "cs"
  /\ BlockOn(t, "WaitUntil", NoDeadline)

\* ConditionVariable::WaitUntil(tp): tp.ToTimespec(&ts), then
\* pthread_cond_timedwait(&cond_, mutex_->GetMutex(), &ts).
WaitUntil(t, tp) ==
  /\ pc[t] = "cs"
  /\ LET ts == ToTimespec(tp) IN
       \/ Expired(ts) /\ TimedOutAtCall(t)
       \/ ~Expired(ts) /\ BlockOn(t, "WaitUntil", ts)
       \/ WaitFails(t, "WaitUntil")

\* Mutant of Timeout: the timer of the native timed wait never fires.
Timeout_ignored(t) ==
  /\ pc[t] = "wait"
  /\ deadline[t] # NoDeadline
  /\ Expired(deadline[t])
  /\ UNCHANGED vars

\* A thread blocked in the native timed wait whose deadline has passed is
\* unblocked with the timeout.
Timeout(t) ==
  /\ pc[t] = "wait"
  /\ deadline[t] # NoDeadline
  /\ Expired(deadline[t])
  /\ cond_' = cond_ \ {t}
  /\ pc' = [pc EXCEPT ![t] = "woken"]
  /\ wake' = [wake EXCEPT ![t] = "timeout"]
  /\ deadline' = [deadline EXCEPT ![t] = NoDeadline]
  /\ UNCHANGED <<notCond, mutex_, initVars, now, op, notified, native, ret>>

\* A thread blocked in the native wait is unblocked without a notification.
SpuriousWakeup(t) ==
  /\ pc[t] = "wait"
  /\ cond_' = cond_ \ {t}
  /\ pc' = [pc EXCEPT ![t] = "woken"]
  /\ wake' = [wake EXCEPT ![t] = "spurious"]
  /\ deadline' = [deadline EXCEPT ![t] = NoDeadline]
  /\ UNCHANGED <<notCond, mutex_, initVars, now, op, notified, native, ret>>

\* Status of a native wait that was unblocked by `cause`.
WaitStatus(cause) == IF cause \in {"timeout", "expired"} THEN ETIMEDOUT ELSE EOK

\* The native wait re-acquires the mutex and returns; Wait/WaitUntil hand
\* its status back.
WaitReturn(t) ==
  /\ pc[t] = "woken"
  /\ pthread_mutex_lock(t)
  /\ pc' = [pc EXCEPT ![t] = "cs"]
  /\ native' = [native EXCEPT ![t] = WaitStatus(wake[t])]
  /\ ret' = [ret EXCEPT ![t] = Return(WaitStatus(wake[t]))]
  /\ UNCHANGED <<notCond, cond_, initVars, now, op, deadline, wake, notified>>

\* -------------------------------------------------------- caller threads
\* A thread outside its critical section calls Mutex::Lock.
Acquire(t) ==
  /\ pc[t] = "idle"
  /\ Lock(t)
  /\ pc' = [pc EXCEPT ![t] = "cs"]
  /\ op' = [op EXCEPT ![t] = "none"]
  /\ wake' = [wake EXCEPT ![t] = "none"]
  /\ notified' = [notified EXCEPT ![t] = FALSE]
  /\ native' = [native EXCEPT ![t] = NoStatus]
  /\ ret' = [ret EXCEPT ![t] = NoStatus]
  /\ UNCHANGED <<notCond, cond_, initVars, now, deadline>>

\* A thread inside its critical section calls Mutex::Unlock.
Release(t) ==
  /\ pc[t] = "cs"
  /\ Unlock(t)
  /\ pc' = [pc EXCEPT ![t] = "idle"]
  /\ op' = [op EXCEPT ![t] = "none"]
  /\ wake' = [wake EXCEPT ![t] = "none"]
  /\ notified' = [notified EXCEPT ![t] = FALSE]
  /\ native' = [native EXCEPT ![t] = NoStatus]
  /\ ret' = [ret EXCEPT ![t] = NoStatus]
  /\ UNCHANGED <<notCond, cond_, initVars, now, deadline>>

\* The monotonic clock advances.
Tick ==
  /\ now < MaxTime
  /\ now' = now + 1
  /\ UNCHANGED <<notCond, mutex_, cond_, initVars, pc, op, deadline, wake, notified, native, ret>>

\* No wrapper operation has been invoked.
InitCalls ==
  /\ invoked = [w \in Wrappers |-> 0]
  /\ calls = [f \in Natives |-> 0]
  /\ lock_status = [t \in Threads |-> NoStatus]

\* Every native creation call succeeds: pthread_mutex_init in Mutex() and the
\* pthread_create of every ScopedThread.
InitCreated ==
  /\ mutex_init = EOK
  /\ create_status = [i \in Threads |-> EOK]

\* State after Mutex() and ConditionVariable(&mutex) returned, every native
\* init having succeeded.
InitCommon ==
  /\ mutex_ = NoThread
  /\ cond_ = {}
  /\ now = 0
  /\ pc = [t \in Callers |-> "idle"]
  /\ op = [t \in Callers |-> "none"]
  /\ deadline = [t \in Callers |-> NoDeadline]
  /\ wake = [t \in Callers |-> "none"]
  /\ notified = [t \in Callers |-> FALSE]
  /\ native = [t \in Callers |-> NoStatus]
  /\ ret = [t \in Callers |-> NoStatus]
  /\ InitCalls

\* No LockGuard has been constructed.
InitGuard ==
  /\ scopes = [t \in Threads |-> 0]
  /\ path = [t \in Threads |-> "none"]
  /\ shared = 0
  /\ lock_calls = 0
  /\ unlock_calls = 0

NoGuard == [status |-> NoStatus, released |-> 0]

\* No LockGuard<pthread_mutex_t> has been constructed.
InitRaw ==
  /\ raw_mutex_ = NoThread
  /\ count = 0
  /\ guards = [t \in Threads |-> <<>>]
  /\ last_dtor = [t \in Threads |-> NoGuard]

\* No ScopedThread has been constructed.
InitThread ==
  /\ obj = [i \in Threads |-> "unborn"]
  /\ thread_ = [i \in Threads |-> "none"]
  /\ written = [i \in Threads |-> 0]
  /\ visible = [i \in Threads |-> 0]
  /\ seen = [i \in Threads |-> NoStatus]

Init ==
  /\ InitCommon
  /\ InitGuard
  /\ InitRaw
  /\ InitThread
  /\ InitCreated
  /\ kind = "normal"
  /\ cond_init = EOK

\* State after construction when the constructors' native init calls may have
\* failed: ConditionVariable() discards the status of pthread_cond_init.
InitUnchecked ==
  /\ InitCommon
  /\ InitGuard
  /\ InitRaw
  /\ InitThread
  /\ InitCreated
  /\ kind = "normal"
  /\ cond_init \in {EOK, ENOMEM}

Next ==
  \/ \E t \in Threads : Acquire(t) /\ UNCHANGED callVars
  \/ \E t \in Threads : Release(t) /\ UNCHANGED callVars
  \/ \E t \in Callers : NotifyOne(t) /\ UNCHANGED callVars
  \/ \E t \in Callers : NotifyAll(t) /\ UNCHANGED callVars
  \/ \E t \in Threads : Wait(t) /\ UNCHANGED callVars
  \/ \E t \in Threads : \E tp \in TimePoints : WaitUntil(t, tp) /\ UNCHANGED callVars
  \/ \E t \in Threads : Timeout(t) /\ UNCHANGED callVars
  \/ \E t \in Threads : SpuriousWakeup(t) /\ UNCHANGED callVars
  \/ \E t \in Threads : WaitReturn(t) /\ UNCHANGED callVars
  \/ Tick /\ UNCHANGED callVars

Spec == Init /\ [][Next]_vars

SpecUnchecked == InitUnchecked /\ [][Next]_vars

\* The scheduler lets every thread that can return from Unlock do so, and a
\* thread re-acquiring the mutex inside a wait gets it if it is free again
\* and again.
Fairness ==
  /\ \A t \in Threads : WF_vars(Release(t) /\ UNCHANGED callVars)
  /\ \A t \in Threads : SF_vars(WaitReturn(t) /\ UNCHANGED callVars)

FairSpec == Spec /\ Fairness

\* The timer of the native timed wait fires once the deadline has passed, and
\* a thread re-acquiring the mutex inside a wait gets it if it is free again
\* and again.  Nothing is assumed of the threads that hold the mutex.
TimerFairness ==
  /\ \A t \in Threads : WF_vars(Timeout(t) /\ UNCHANGED callVars)
  /\ \A t \in Threads : SF_vars(WaitReturn(t) /\ UNCHANGED callVars)

TimedSpec == Spec /\ TimerFairness

\* ====================================================================
\* LockGuard<M> around the Mutex
\* ====================================================================

\* The ways control leaves a scope: it runs to the end, returns early, or an
\* error propagates out of the protected code.
ExitPaths == {"end", "return", "throw"}

\* LockGuard(M& mutex) : mutex_(mutex) { mutex_.Lock(); }
LockGuard_ctor(t) ==
  /\ Lock(t)
  /\ lock_calls' = lock_calls + 1

\* Mutant of LockGuard_dtor: the destructor is empty.
LockGuard_dtor_empty(t) == UNCHANGED <<mutex_, unlock_calls>>

\* Mutant of LockGuard_dtor: releases only a Mutex its thread owns.
LockGuard_dtor_if_owner(t) ==
  IF mutex_ = t
    THEN Unlock(t) /\ unlock_calls' = unlock_calls + 1
    ELSE UNCHANGED <<mutex_, unlock_calls>>

\* ~LockGuard() { mutex_.Unlock(); }
LockGuard_dtor(t) ==
  /\ Unlock(t)
  /\ unlock_calls' = unlock_calls + 1

\* A thread enters a scope that declares a LockGuard<Mutex>: the constructor
\* runs, blocking until the Mutex is free.
EnterScope(t) ==
  /\ pc[t] = "idle"
  /\ scopes[t] < MaxScopes
  /\ LockGuard_ctor(t)
  /\ pc' = [pc EXCEPT ![t] = "cs"]
  /\ scopes' = [scopes EXCEPT ![t] = @ + 1]
  /\ path' = [path EXCEPT ![t] = "none"]
  /\ UNCHANGED <<condVars, rawVars, threadVars, shared, unlock_calls>>

\* The protected code updates the shared data.
Work(t) ==
  /\ pc[t] = "cs"
  /\ pc' = [pc EXCEPT ![t] = "worked"]
  /\ shared' = shared + 1
  /\ UNCHANGED <<mutex_, condVars, rawVars, threadVars, scopes, path, lock_calls, unlock_calls>>

\* Where in the protected code each way out is taken: the early return
\* before the update, the end after it, an error at either point.
MayLeave(t, how) ==
  \/ how = "return" /\ pc[t] = "cs"
  \/ how = "end" /\ pc[t] = "worked"
  \/ how = "throw" /\ pc[t] \in {"cs", "worked"}

\* Mutant of LeaveScope: the release is a statement at the end of the
\* protected code, which an error propagating out of it skips.
LeaveScope_skipped_on_throw(t, how) ==
  /\ MayLeave(t, how)
  /\ IF how = "throw"
       THEN UNCHANGED <<mutex_, unlock_calls>>
       ELSE LockGuard_dtor(t)
  /\ pc' = [pc EXCEPT ![t] = "idle"]
  /\ path' = [path EXCEPT ![t] = how]
  /\ UNCHANGED <<condVars, rawVars, threadVars, scopes, shared, lock_calls>>

\* Control leaves the scope by `how`: the LockGuard goes out of scope and its
\* destructor runs, whatever the way out.
LeaveScope(t, how) ==
  /\ MayLeave(t, how)
  /\ LockGuard_dtor(t)
  /\ pc' = [pc EXCEPT ![t] = "idle"]
  /\ path' = [path EXCEPT ![t] = how]
  /\ UNCHANGED <<condVars, rawVars, threadVars, scopes, shared, lock_calls>>

NextGuard ==
  \/ \E t \in Threads : EnterScope(t) /\ UNCHANGED callVars
  \/ \E t \in Threads : Work(t) /\ UNCHANGED callVars
  \/ \E t \in Threads : \E how \in ExitPaths : LeaveScope(t, how) /\ UNCHANGED callVars

SpecGuard == Init /\ [][NextGuard]_vars

\* The scheduler runs every thread that can take a step: one whose protected
\* code can go on or leave its scope does, and one blocked in the LockGuard
\* constructor acquires the Mutex if it stays free.
GuardFairness ==
  /\ \A t \in Threads : WF_vars(EnterScope(t) /\ UNCHANGED callVars)
  /\ \A t \in Threads : WF_vars(Work(t) /\ UNCHANGED callVars)
  /\ \A t \in Threads :
       WF_vars((\E how \in ExitPaths : LeaveScope(t, how)) /\ UNCHANGED callVars)

FairSpecGuard == SpecGuard /\ GuardFairness

\* ====================================================================
\* LockGuard<pthread_mutex_t> on a raw native mutex
\* ====================================================================

\* The mutex types POSIX defines for a raw pthread_mutex_t.
Kinds == {"normal", "errorcheck", "recursive"}

\* The statuses pthread_mutex_lock can return to t now; none while t has to
\* block (the mutex is with another thread, or t relocks a normal mutex).
RawLockStatuses(t) ==
  IF raw_mutex_ = NoThread THEN {EOK}
  ELSE IF raw_mutex_ # t THEN {}
  ELSE IF kind = "errorcheck" THEN {EDEADLK}
  ELSE IF kind = "recursive" THEN (IF count < MaxRecursive THEN {EOK} ELSE {EAGAIN})
  ELSE {}

\* pthread_mutex_lock on the raw mutex returns s to t.
RawLock(t, s) ==
  IF s = EOK
    THEN raw_mutex_' = t /\ count' = count + 1
    ELSE UNCHANGED <<raw_mutex_, count>>

\* pthread_mutex_unlock on the raw mutex by t: the owner gives up one lock,
\* any other caller is refused.
RawUnlock(t) ==
  IF raw_mutex_ = t
    THEN /\ count' = count - 1
         /\ raw_mutex_' = IF count = 1 THEN NoThread ELSE t
    ELSE UNCHANGED <<raw_mutex_, count>>

\* unlock_ = (pthread_mutex_lock(&mutex_) == 0)
AcquiredFlag(s) == (s = EOK)

\* Mutant of ReleaseCalls: the destructor releases unconditionally.
ReleaseCalls_unconditional(g) == 1

\* The native release calls ~LockGuard makes: if (unlock_) pthread_mutex_unlock.
ReleaseCalls(g) == IF g.unlock_ THEN 1 ELSE 0

\* A thread reaches a scope that declares a LockGuard<pthread_mutex_t> and
\* its constructor calls pthread_mutex_lock.
RawBeginScope(t) ==
  /\ pc[t] = "idle"
  /\ Len(guards[t]) < MaxDepth
  /\ pc' = [pc EXCEPT ![t] = "ctor"]
  /\ UNCHANGED <<mutex_, condVars, guardVars, threadVars, rawVars>>

\* The constructor's native lock call returns and the constructor records
\* whether it succeeded.
RawEnterScope(t) ==
  /\ pc[t] = "ctor"
  /\ \E s \in RawLockStatuses(t) :
       /\ RawLock(t, s)
       /\ guards' = [guards EXCEPT
            ![t] = Append(@, [unlock_ |-> AcquiredFlag(s), status |-> s])]
  /\ pc' = [pc EXCEPT ![t] = "idle"]
  /\ UNCHANGED <<mutex_, condVars, guardVars, threadVars, kind, last_dtor>>

\* The innermost scope of t ends and the destructor of its guard runs.
RawLeaveScope(t) ==
  /\ pc[t] = "idle"
  /\ guards[t] # <<>>
  /\ LET g == guards[t][Len(guards[t])] IN
       /\ IF ReleaseCalls(g) > 0 THEN RawUnlock(t) ELSE UNCHANGED <<raw_mutex_, count>>
       /\ last_dtor' = [last_dtor EXCEPT
            ![t] = [status |-> g.status, released |-> ReleaseCalls(g)]]
  /\ guards' = [guards EXCEPT ![t] = SubSeq(@, 1, Len(@) - 1)]
  /\ UNCHANGED <<mutex_, pc, condVars, guardVars, threadVars, kind>>

\* The raw mutex was initialised by its owner as any of the POSIX types.
InitRawSpec ==
  /\ InitCommon
  /\ InitGuard
  /\ InitRaw
  /\ InitThread
  /\ InitCreated
  /\ kind \in Kinds
  /\ cond_init = EOK

NextRaw ==
  \/ \E t \in Threads : RawBeginScope(t) /\ UNCHANGED callVars
  \/ \E t \in Threads : RawEnterScope(t) /\ UNCHANGED callVars
  \/ \E t \in Threads : RawLeaveScope(t) /\ UNCHANGED callVars

SpecRaw == InitRawSpec /\ [][NextRaw]_vars

\* ====================================================================
\* ScopedThread
\* ====================================================================
\* ScopedThread object i belongs to the owner thread, which constructs and
\* destroys it; its entry function stores a sentinel in cell i of shared
\* memory.  A store becomes visible to the owner's thread when the memory
\* system propagates it, and at the latest when pthread_join returns (POSIX
\* has pthread_join synchronise memory with the terminated thread).

\* The owner is not inside a destructor: it is one thread, and a destructor
\* that waits in pthread_join keeps it from doing anything else.
OwnerRuns == \A i \in Threads : obj[i] # "dtor"

\* Mutant of ScopedThread_ctor: the result of pthread_create is checked and a
\* failure leaves no object behind.
ScopedThread_ctor_checked(i) ==
  /\ OwnerRuns
  /\ obj[i] = "unborn"
  /\ obj' = [obj EXCEPT ![i] = IF create_status[i] = EOK THEN "alive" ELSE "unborn"]
  /\ thread_' = [thread_ EXCEPT ![i] = IF create_status[i] = EOK THEN "running" ELSE "none"]
  /\ UNCHANGED <<mutex_, pc, condVars, guardVars, rawVars, written, visible, seen>>

\* ScopedThread(start, arg) { pthread_create(&thread_, NULL, start, arg); }
\* The new thread starts to run start(arg) with the construction; when
\* pthread_create fails no thread starts and thread_ is left unset, and the
\* object is constructed all the same.
ScopedThread_ctor(i) ==
  /\ OwnerRuns
  /\ obj[i] = "unborn"
  /\ obj' = [obj EXCEPT ![i] = "alive"]
  /\ thread_' = [thread_ EXCEPT ![i] = IF create_status[i] = EOK THEN "running" ELSE "none"]
  /\ UNCHANGED <<mutex_, pc, condVars, guardVars, rawVars, written, visible, seen>>

\* The entry function stores the next sentinel value in its cell.
EntryWrites(i) ==
  /\ thread_[i] = "running"
  /\ written[i] < MaxWrites
  /\ written' = [written EXCEPT ![i] = @ + 1]
  /\ UNCHANGED <<mutex_, pc, condVars, guardVars, rawVars, obj, thread_, visible, seen>>

\* The entry function returns: the native thread terminates.
EntryReturns(i) ==
  /\ thread_[i] = "running"
  /\ thread_' = [thread_ EXCEPT ![i] = "terminated"]
  /\ UNCHANGED <<mutex_, pc, condVars, guardVars, rawVars, obj, written, visible, seen>>

\* The memory system makes the oldest pending store of thread i visible.
Propagate(i) ==
  /\ visible[i] < written[i]
  /\ visible' = [visible EXCEPT ![i] = @ + 1]
  /\ UNCHANGED <<mutex_, pc, condVars, guardVars, rawVars, obj, thread_, written, seen>>

\* The owner's scope ends and ~ScopedThread() calls pthread_join.
ScopedThread_dtor_begins(i) ==
  /\ OwnerRuns
  /\ obj[i] = "alive"
  /\ obj' = [obj EXCEPT ![i] = "dtor"]
  /\ UNCHANGED <<mutex_, pc, condVars, guardVars, rawVars, thread_, written, visible, seen>>

\* Mutant of pthread_join: returns without waiting for the thread (a detach).
pthread_detach(i) ==
  /\ thread_' = thread_
  /\ visible' = visible

\* Mutant of pthread_join: a try-join, which comes back at once (EBUSY) when
\* the thread is still running.
pthread_tryjoin(i) ==
  \/ /\ thread_[i] = "terminated"
     /\ thread_' = [thread_ EXCEPT ![i] = "joined"]
     /\ visible' = [visible EXCEPT ![i] = written[i]]
  \/ /\ thread_[i] \in {"none", "running"}
     /\ UNCHANGED <<thread_, visible>>

\* pthread_join(thread_, &value): returns once the thread has terminated,
\* with the thread's stores visible to the caller; the value is dropped.
\* On a thread_ that pthread_create never set the call is undefined: it comes
\* back with an error, or it does not come back (this disjunct is not taken).
pthread_join(i) ==
  \/ /\ thread_[i] = "terminated"
     /\ thread_' = [thread_ EXCEPT ![i] = "joined"]
     /\ visible' = [visible EXCEPT ![i] = written[i]]
  \/ /\ thread_[i] = "none"
     /\ UNCHANGED <<thread_, visible>>

\* Mutant of ScopedThread_dtor_returns: the object outlives the join and can
\* be destroyed, and so joined, again.
ScopedThread_dtor_rejoinable(i) ==
  /\ obj[i] = "dtor"
  /\ pthread_join(i)
  /\ obj' = [obj EXCEPT ![i] = "alive"]
  /\ UNCHANGED <<mutex_, pc, condVars, guardVars, rawVars, written, seen>>

\* pthread_join returns and with it the destructor.
ScopedThread_dtor_returns(i) ==
  /\ obj[i] = "dtor"
  /\ pthread_join(i)
  /\ obj' = [obj EXCEPT ![i] = "dead"]
  /\ UNCHANGED <<mutex_, pc, condVars, guardVars, rawVars, written, seen>>

\* The owner reads cell i.
OwnerReads(i) ==
  /\ OwnerRuns
  /\ seen' = [seen EXCEPT ![i] = visible[i]]
  /\ UNCHANGED <<mutex_, pc, condVars, guardVars, rawVars, obj, thread_, written, visible>>

NextThread ==
  \/ \E i \in Threads : ScopedThread_ctor(i) /\ UNCHANGED callVars
  \/ \E i \in Threads : EntryWrites(i) /\ UNCHANGED callVars
  \/ \E i \in Threads : EntryReturns(i) /\ UNCHANGED callVars
  \/ \E i \in Threads : Propagate(i) /\ UNCHANGED callVars
  \/ \E i \in Threads : ScopedThread_dtor_begins(i) /\ UNCHANGED callVars
  \/ \E i \in Threads : ScopedThread_dtor_returns(i) /\ UNCHANGED callVars
  \/ \E i \in Threads : OwnerReads(i) /\ UNCHANGED callVars

SpecThread == Init /\ [][NextThread]_vars

\* State before any ScopedThread is constructed when pthread_create may fail
\* (EAGAIN) for any of them: the constructor discards its result.
InitThreadUnchecked ==
  /\ InitCommon
  /\ InitGuard
  /\ InitRaw
  /\ InitThread
  /\ kind = "normal"
  /\ mutex_init = EOK
  /\ cond_init = EOK
  /\ create_status \in [Threads -> {EOK, EAGAIN}]

SpecThreadUnchecked == InitThreadUnchecked /\ [][NextThread]_vars

\* ------------------------------------- entry functions that take the Mutex
\* The entry function of every ScopedThread runs MaxScopes LockGuard scopes
\* on the shared Mutex and returns; the owner locks and unlocks the same
\* Mutex around what it does, destroying a ScopedThread included.

\* The owner calls Mutex::Lock.
OwnerLocks ==
  /\ OwnerRuns
  /\ Acquire(Main)

\* The owner calls Mutex::Unlock.
OwnerUnlocks ==
  /\ OwnerRuns
  /\ Release(Main)

\* The entry function enters its next scope, blocking in the LockGuard
\* constructor until the Mutex is free.
EntryEnterScope(i) ==
  /\ thread_[i] = "running"
  /\ EnterScope(i)

\* The entry function updates the shared data inside its scope.
EntryWork(i) ==
  /\ thread_[i] = "running"
  /\ Work(i)

\* The entry function leaves its scope, by the end or an early exit.
EntryLeaveScope(i) ==
  /\ thread_[i] = "running"
  /\ \E how \in {"end", "return"} : LeaveScope(i, how)

\* The entry function returns after its last scope.
EntryFinishes(i) ==
  /\ pc[i] = "idle"
  /\ scopes[i] = MaxScopes
  /\ EntryReturns(i)

NextJoin ==
  \/ \E i \in Threads : ScopedThread_ctor(i) /\ UNCHANGED callVars
  \/ OwnerLocks /\ UNCHANGED callVars
  \/ OwnerUnlocks /\ UNCHANGED callVars
  \/ \E i \in Threads : EntryEnterScope(i) /\ UNCHANGED callVars
  \/ \E i \in Threads : EntryWork(i) /\ UNCHANGED callVars
  \/ \E i \in Threads : EntryLeaveScope(i) /\ UNCHANGED callVars
  \/ \E i \in Threads : EntryFinishes(i) /\ UNCHANGED callVars
  \/ \E i \in Threads : ScopedThread_dtor_begins(i) /\ UNCHANGED callVars
  \/ \E i \in Threads : ScopedThread_dtor_returns(i) /\ UNCHANGED callVars

\* The scheduler runs every created thread that can go on, and pthread_join
\* returns once it can.  Nothing is assumed of the owner.
JoinFairness ==
  /\ \A i \in Threads : WF_vars(EntryEnterScope(i) /\ UNCHANGED callVars)
  /\ \A i \in Threads : WF_vars(EntryWork(i) /\ UNCHANGED callVars)
  /\ \A i \in Threads : WF_vars(EntryLeaveScope(i) /\ UNCHANGED callVars)
  /\ \A i \in Threads : WF_vars(EntryFinishes(i) /\ UNCHANGED callVars)
  /\ \A i \in Threads : WF_vars(ScopedThread_dtor_returns(i) /\ UNCHANGED callVars)

SpecJoin == InitThreadUnchecked /\ [][NextJoin]_vars /\ JoinFairness

\* ====================================================================
\* Claims
\* ====================================================================

InCriticalSection == {t \in Threads : pc[t] = "cs"}

\* C1: mutual exclusion.  In every reachable state at most one thread is
\* inside its critical section, and a thread inside it is the owner of the
\* Mutex.
C1_MutualExclusion ==
  /\ Cardinality(InCriticalSection) <= 1
  /\ \A t \in Threads : pc[t] = "cs" => mutex_ = t

\* One thread is inside while another that already ran Lock/Unlock once more
\* waits to get the mutex back.
C1_Witness ==
  \E t, u \in Threads : t # u /\ pc[t] = "cs" /\ pc[u] = "woken" /\ mutex_ = t

\* Wait() has returned to t and t has made no other call since.
WaitReturned(t) == pc[t] = "cs" /\ op[t] = "Wait" /\ ret[t] # NoStatus

\* C4: a thread to which Wait() has just returned owns the associated Mutex,
\* and no thread blocked inside Wait() owns it.
C4_WaitReleasesAndReacquires ==
  \A t \in Threads :
    /\ WaitReturned(t) => mutex_ = t
    /\ (pc[t] = "wait" /\ op[t] = "Wait") => mutex_ # t

\* Wait() has returned to t, after another thread held the mutex during the
\* wait, while u is still blocked in its own Wait() and t owns the mutex.
C4_Witness ==
  \E t, u \in Threads :
    /\ t # u
    /\ WaitReturned(t)
    /\ wake[t] = "NotifyOne"
    /\ pc[u] = "wait" /\ op[u] = "Wait"

\* The threads a step unblocks from cond_ on behalf of `method`.
WokenBy(method) ==
  {w \in Threads : pc[w] = "wait" /\ pc'[w] = "woken" /\ wake'[w] = method}

\* Thread t makes a first call of `method` in this step.
Calls(t, method) == op[t] # method /\ op'[t] = method

\* C5, the wake-up: a NotifyAll() step unblocks every thread blocked on the
\* ConditionVariable at the call and leaves none blocked.
C5_WakesAll ==
  \A t \in Callers :
    Calls(t, "NotifyAll") => cond_' = {} /\ WokenBy("NotifyAll") = cond_

\* C5, the resumption: a waiter NotifyAll woke that is past its re-acquire
\* owns the Mutex, so no two of them are past it together.
C5_OneAtATime ==
  \A t, u \in Threads :
    (pc[t] = "cs" /\ wake[t] = "NotifyAll")
      => /\ mutex_ = t
         /\ (u # t => pc[u] # "cs")

\* C5, the progress: a waiter NotifyAll woke eventually returns from its wait.
C5_EventuallyReturns ==
  \A t \in Threads :
    (pc[t] = "woken" /\ wake[t] = "NotifyAll")
      ~> (pc[t] = "cs" /\ wake[t] = "NotifyAll" /\ ret[t] = EOK)

\* C5: NotifyAll() wakes every thread blocked on the ConditionVariable at the
\* call; each resumes owning the Mutex, never two at a time; and under
\* fairness each of them eventually returns from its wait.
C5_NotifyAll ==
  /\ [][C5_WakesAll]_vars
  /\ []C5_OneAtATime
  /\ C5_EventuallyReturns

\* Two waiters were blocked at one NotifyAll; one has returned with the
\* mutex and the other is unblocked and still re-acquiring.
C5_Witness ==
  \E t, u \in Threads :
    /\ t # u
    /\ pc[t] = "cs" /\ wake[t] = "NotifyAll" /\ ret[t] = EOK
    /\ pc[u] = "woken" /\ wake[u] = "NotifyAll"

\* C6: a step unblocks at most one thread on behalf of NotifyOne(), and a
\* thread becomes "woken by NotifyOne" only in a step at whose start it was
\* blocked on the ConditionVariable (a thread that starts to wait later is
\* not woken by an earlier call).
C6_NotifyOneWakesAtMostOne ==
  [][/\ Cardinality(WokenBy("NotifyOne")) <= 1
     /\ \A w \in Threads :
          (pc'[w] = "woken" /\ wake'[w] = "NotifyOne"
             /\ ~(pc[w] = "woken" /\ wake[w] = "NotifyOne"))
            => (w \in cond_ /\ \E t \in Callers \ {w} : op'[t] = "NotifyOne")]_vars

\* NotifyOne unblocked one of two blocked threads; the other is still blocked.
C6_Witness ==
  \E w, u \in Threads :
    /\ w # u
    /\ pc[w] = "woken" /\ wake[w] = "NotifyOne"
    /\ pc[u] = "wait"

\* C10: the status a ConditionVariable method returns is the status its
\* native call returned, whatever the code.
C10_StatusPassedThrough ==
  \A t \in Callers : ret[t] = native[t]

\* A timed wait has returned the timeout code, a notify has returned an error
\* code and another notify has returned success.
C10_Witness ==
  \E t, u \in Callers :
    /\ op[t] = "WaitUntil" /\ ret[t] = ETIMEDOUT /\ native[t] = ETIMEDOUT
    /\ op[u] \in {"NotifyOne", "NotifyAll"} /\ ret[u] = EINVAL /\ native[u] = EINVAL

\* The ticks a timespec stands for.
TicksOf(ts) == ts.tv_sec * TicksPerSec + ts.tv_nsec

\* Thread t, holding the Mutex, makes a WaitUntil call in this step.
CallsWaitUntil(t) ==
  /\ pc[t] = "cs"
  /\ op'[t] = "WaitUntil"
  /\ <<pc'[t], op'[t], wake'[t], ret'[t]>> # <<pc[t], op[t], wake[t], ret[t]>>

\* C7 as stated: a WaitUntil() whose deadline had passed at the call does not
\* block its caller: whenever such a call has not returned yet, it can
\* return at once (the Mutex it has to re-acquire is free).
C7_Original ==
  \A t \in Threads :
    (wake[t] = "expired" /\ pc[t] = "woken") => mutex_ = NoThread

\* C7, the call: a WaitUntil() call blocks on the ConditionVariable only with
\* a deadline still ahead of the clock, and a call that does not block on it
\* takes the timeout path.
C7_NeverWaitsPastDeadline ==
  \A t \in Threads :
    CallsWaitUntil(t) =>
      \/ pc'[t] = "wait" /\ TicksOf(deadline'[t]) > now
      \/ wake'[t] = "expired" /\ pc'[t] \in {"woken", "cs"}

\* C7, the result: a call on the timeout path is never among the threads
\* blocked on the ConditionVariable, needs no notification, and once it has
\* re-acquired the Mutex it has returned the timeout status.
C7_TimeoutStatus ==
  \A t \in Threads :
    wake[t] = "expired" =>
      /\ t \notin cond_
      /\ pc[t] \in {"woken", "cs"}
      /\ pc[t] = "cs" => (ret[t] = ETIMEDOUT /\ mutex_ = t)

\* C7 as amended: WaitUntil() with a deadline already passed returns the
\* timeout status without waiting on the ConditionVariable, whether or not a
\* notification ever occurs; it returns once it has re-acquired the Mutex.
C7_PastDeadlineTimesOut ==
  /\ [][C7_NeverWaitsPastDeadline]_vars
  /\ []C7_TimeoutStatus

\* A WaitUntil() with a passed deadline has returned the timeout status
\* while nobody ever notified.
C7_Witness ==
  \E t \in Threads :
    /\ pc[t] = "cs" /\ wake[t] = "expired" /\ ret[t] = ETIMEDOUT
    /\ \A u \in Callers : op[u] \notin {"NotifyOne", "NotifyAll"}

\* C8 as stated: a WaitUntil() with a future deadline during which another
\* thread called NotifyOne() before the deadline passed returns a status
\* other than the timeout, and its caller owns the Mutex.
C8_Original ==
  \A t \in Threads :
    (pc[t] = "cs" /\ op[t] = "WaitUntil" /\ notified[t])
      => (ret[t] # ETIMEDOUT /\ mutex_ = t)

\* C8, the wake-up: a NotifyOne() made while t is the only thread blocked on
\* the ConditionVariable unblocks t.
C8_SoleWaiterIsWoken ==
  \A t \in Threads : \A v \in Callers \ {t} :
    (Calls(v, "NotifyOne") /\ cond_ = {t})
      => (pc'[t] = "woken" /\ wake'[t] = "NotifyOne")

\* C8, the result: a WaitUntil() that NotifyOne() unblocked returns a status
\* other than the timeout, and its caller owns the Mutex on return.
C8_NotifiedReturn ==
  \A t \in Threads :
    (pc[t] = "cs" /\ op[t] = "WaitUntil" /\ wake[t] = "NotifyOne")
      => (ret[t] = EOK /\ mutex_ = t)

\* C8 as amended: a WaitUntil() with a future deadline that another thread's
\* NotifyOne() unblocks before the deadline (as it must when the caller is
\* the only thread blocked on the ConditionVariable at that call) returns a
\* non-timeout status, and on return the caller owns the Mutex.
C8_NotifiedBeforeDeadline ==
  /\ [][C8_SoleWaiterIsWoken]_vars
  /\ []C8_NotifiedReturn

\* A WaitUntil() with a future deadline was unblocked by NotifyOne() before
\* the deadline and has returned success although the deadline has passed
\* since.
C8_Witness ==
  \E t \in Threads :
    /\ pc[t] = "cs" /\ op[t] = "WaitUntil" /\ wake[t] = "NotifyOne"
    /\ notified[t] /\ ret[t] = EOK /\ now = MaxTime

\* Thread t is inside a LockGuard scope.
InScope(t) == pc[t] \in {"cs", "worked"}

\* The LockGuard scopes thread t has left.
ScopesLeft(t) == IF InScope(t) THEN scopes[t] - 1 ELSE scopes[t]

RECURSIVE Sum(_, _)
Sum(f, S) ==
  IF S = {} THEN 0
  ELSE LET x == CHOOSE y \in S : TRUE IN f[x] + Sum(f, S \ {x})

\* C2, the steps: entering the scope takes the free Mutex for the entering
\* thread, and leaving it, by whichever way out, makes one release call and
\* leaves the Mutex free.
C2_ScopeSteps ==
  \A t \in Threads :
    /\ (pc[t] = "idle" /\ InScope(t)') => (mutex_ = NoThread /\ mutex_' = t)
    /\ (InScope(t) /\ pc'[t] = "idle")
         => /\ mutex_' = NoThread
            /\ unlock_calls' = unlock_calls + 1
            /\ path'[t] \in ExitPaths

\* C2, the states: the guard holds the Mutex all through its scope, one
\* release call has been made for every scope left, and a free Mutex can be
\* acquired by any thread that wants to enter a scope.
C2_ScopeStates ==
  /\ \A t \in Threads : InScope(t) => mutex_ = t
  /\ unlock_calls = Sum([t \in Threads |-> ScopesLeft(t)], Threads)
  /\ lock_calls = Sum(scopes, Threads)
  /\ mutex_ = NoThread =>
       \A u \in Threads :
         (pc[u] = "idle" /\ scopes[u] < MaxScopes) => ENABLED EnterScope(u)

\* C2: a LockGuard around a Mutex acquires it at construction and releases
\* it exactly once when its scope ends, on every way out; right after the
\* scope the Mutex is free and any thread can acquire it again.
C2_LockGuardReleasesOnce ==
  /\ [][C2_ScopeSteps]_vars
  /\ []C2_ScopeStates

\* A thread has left its scope through an error raised after the update, and
\* the other thread has then entered its own scope, having earlier left one
\* by the early return.
C2_Witness ==
  \E t, u \in Threads :
    /\ t # u
    /\ pc[t] = "idle" /\ path[t] = "throw" /\ shared > 0
    /\ pc[u] = "cs" /\ mutex_ = u /\ scopes[u] = MaxScopes

\* The guards of t that are live before and after a step.
KeptGuards(t) ==
  1..(IF Len(guards[t]) < Len(guards'[t]) THEN Len(guards[t]) ELSE Len(guards'[t]))

\* C3, the destructor: the guard a thread destroyed last made no native
\* release call if the native acquire of its constructor had failed, and
\* exactly one if it had succeeded.
C3_ReleaseMatchesAcquire ==
  \A t \in Threads :
    last_dtor[t] # NoGuard =>
      last_dtor[t].released = (IF last_dtor[t].status = EOK THEN 1 ELSE 0)

\* C3, the flag: of a live guard it says whether the acquire succeeded, and
\* no step changes it while the guard lives.
C3_FlagIsFixed ==
  /\ \A t \in Threads : \A i \in 1..Len(guards[t]) :
       guards[t][i].unlock_ = (guards[t][i].status = EOK)
  /\ \A t \in Threads : \A i \in KeptGuards(t) :
       guards'[t][i].unlock_ = guards[t][i].unlock_

\* C3: in LockGuard<pthread_mutex_t>, destruction makes no release call when
\* the acquire at construction failed and exactly one when it succeeded; the
\* success flag is set at construction and never changes.
C3_RawGuardSkipsRelease ==
  /\ []C3_ReleaseMatchesAcquire
  /\ [][C3_FlagIsFixed]_vars

\* A guard whose acquire failed (the thread already held the raw mutex) has
\* been destroyed without a release call: its thread still owns the mutex
\* through the outer guard.
C3_Witness ==
  \E t \in Threads :
    /\ last_dtor[t].status # EOK /\ last_dtor[t].status # NoStatus
    /\ last_dtor[t].released = 0
    /\ raw_mutex_ = t
    /\ Len(guards[t]) = 1 /\ guards[t][1].unlock_

\* C9, the join: once the destructor of a ScopedThread has returned, its
\* thread has terminated and every store its entry function made is visible
\* to the destroying thread.
C9_JoinedAndVisible ==
  \A i \in Threads :
    obj[i] = "dead" => (thread_[i] = "joined" /\ visible[i] = written[i])

\* C9, the read: a read the destroying thread makes after the destructor
\* returned yields the last sentinel the entry function stored.
C9_ReadsSentinel ==
  \A i \in Threads :
    (obj[i] = "dead" /\ OwnerReads(i)) => seen'[i] = written[i]

\* C9: the ScopedThread destructor returns only after the thread created at
\* construction has terminated, so every write of the entry function is
\* visible to the destroying thread in every state after it returns.
C9_JoinOnDestruction ==
  /\ []C9_JoinedAndVisible
  /\ [][C9_ReadsSentinel]_vars

\* The owner read an old value of the cell while the thread ran, and after
\* the destructor returned it has read the last sentinel.
C9_Witness ==
  \E i \in Threads :
    /\ obj[i] = "dead"
    /\ written[i] = MaxWrites
    /\ seen[i] = MaxWrites
    /\ \E j \in Threads : j # i /\ thread_[j] = "running" /\ visible[j] < written[j]

\* Thread t is inside a WaitUntil() call whose deadline has elapsed: blocked
\* on the ConditionVariable past the deadline, or unblocked by the timeout and
\* re-acquiring the Mutex.
DeadlineElapsed(t) ==
  /\ op[t] = "WaitUntil"
  /\ \/ pc[t] = "wait" /\ Expired(deadline[t])
     \/ pc[t] = "woken" /\ wake[t] \in {"timeout", "expired"}

\* WaitUntil() has returned to t and t has made no other call since.
WaitUntilReturned(t) == pc[t] = "cs" /\ op[t] = "WaitUntil" /\ ret[t] # NoStatus

\* C11 as stated: once the deadline of a WaitUntil() call has elapsed the
\* call returns, whatever the other threads do with the Mutex.
C11_Original ==
  \A t \in Threads : DeadlineElapsed(t) ~> WaitUntilReturned(t)

\* C11, the wait: a thread blocked on the ConditionVariable past its deadline
\* stops being blocked on it, notified or not.
C11_StopsWaiting ==
  \A t \in Threads :
    (pc[t] = "wait" /\ op[t] = "WaitUntil" /\ Expired(deadline[t])) ~> (pc[t] # "wait")

\* C11, the return: if the Mutex is free again and again, a WaitUntil() call
\* whose deadline has elapsed returns.
C11_ReturnsIfMutexFreed ==
  \A t \in Threads :
    ([]<>(mutex_ = NoThread)) => (DeadlineElapsed(t) ~> WaitUntilReturned(t))

\* C11 as amended: once the deadline has elapsed a WaitUntil() call stops
\* waiting on the ConditionVariable, whether or not a notification arrives,
\* and it returns provided the Mutex it has to re-acquire becomes free.
C11_BoundedWait ==
  /\ C11_StopsWaiting
  /\ C11_ReturnsIfMutexFreed

\* A WaitUntil() blocked until its deadline passed has timed out and waits
\* for the Mutex, which another thread holds; nobody has notified.
C11_Witness ==
  \E t, u \in Threads :
    /\ t # u
    /\ pc[t] = "woken" /\ op[t] = "WaitUntil" /\ wake[t] = "timeout"
    /\ mutex_ = u /\ pc[u] = "cs"
    /\ \A v \in Callers : op[v] \notin {"NotifyOne", "NotifyAll"}

\* ====================================================================
\* The wrapper operations with their native calls tallied, construction
\* unchecked
\* ====================================================================

\* The native function the body of wrapper operation w calls (LockGuard<M>
\* reaches it through M::Lock / M::Unlock).
NativeOf(w) ==
  CASE w \in {"Mutex::Lock", "LockGuard", "LockGuard<pthread_mutex_t>"} -> "pthread_mutex_lock"
    [] w \in {"Mutex::Unlock", "~LockGuard", "~LockGuard<pthread_mutex_t>"} -> "pthread_mutex_unlock"
    [] w = "NotifyOne" -> "pthread_cond_signal"
    [] w = "NotifyAll" -> "pthread_cond_broadcast"
    [] w = "Wait" -> "pthread_cond_wait"
    [] w = "WaitUntil" -> "pthread_cond_timedwait"
    [] w = "ScopedThread" -> "pthread_create"
    [] w = "~ScopedThread" -> "pthread_join"

\* Mutant of Attempts: a call that returned an error is made once more.
Attempts_retried(s) == IF s = EOK THEN 1 ELSE 2

\* The times a wrapper body makes its native call when the call returns s:
\* the body is the one call, in no loop and with no test of s around it.
Attempts(s) == 1

TotalCalls == Sum(calls, Natives)

\* A step completes an invocation of the wrapper operations W, in which the
\* native function f was called n times.
Tally(W, f, n) ==
  /\ TotalCalls < MaxCalls
  /\ invoked' = [w \in Wrappers |-> IF w \in W THEN invoked[w] + 1 ELSE invoked[w]]
  /\ calls' = [calls EXCEPT ![f] = @ + n]

\* Status of the native lock call t makes from outside the Mutex, read off
\* the step: the call succeeded iff t owns the Mutex after it.
LockStatusOf(t) == IF mutex_' = t THEN EOK ELSE EINVAL

\* Status of the native unlock call t makes: refused unless t is the owner.
UnlockStatusOf(t) == IF mutex_ = t THEN EOK ELSE EINVAL

\* Status of the native join on ScopedThread i.
JoinStatusOf(i) == IF thread_[i] = "terminated" THEN EOK ELSE ESRCH

\* LockGuard<Mutex> guard(mutex): the constructor calls Mutex::Lock, which
\* calls pthread_mutex_lock and drops its status.
TalliedEnterScope(t) ==
  /\ EnterScope(t)
  /\ Tally({"LockGuard", "Mutex::Lock"}, "pthread_mutex_lock",
           (lock_calls' - lock_calls) * Attempts(LockStatusOf(t)))
  /\ lock_status' = [lock_status EXCEPT ![t] = LockStatusOf(t)]

\* The guard's scope ends: the destructor calls Mutex::Unlock, which calls
\* pthread_mutex_unlock.
TalliedLeaveScope(t, how) ==
  /\ LeaveScope(t, how)
  /\ Tally({"~LockGuard", "Mutex::Unlock"}, "pthread_mutex_unlock",
           (unlock_calls' - unlock_calls) * Attempts(UnlockStatusOf(t)))
  /\ UNCHANGED lock_status

TalliedNotifyOne(t) ==
  /\ NotifyOne(t)
  /\ Tally({"NotifyOne"}, "pthread_cond_signal", Attempts(native'[t]))
  /\ UNCHANGED lock_status

TalliedNotifyAll(t) ==
  /\ NotifyAll(t)
  /\ Tally({"NotifyAll"}, "pthread_cond_broadcast", Attempts(native'[t]))
  /\ UNCHANGED lock_status

\* A wait is tallied when it returns: in the step of the call if the native
\* call comes back at once, otherwise in the step that ends the wait.
TalliedIfReturned(t) ==
  /\ IF pc'[t] = "cs"
       THEN Tally({op'[t]}, NativeOf(op'[t]), Attempts(native'[t]))
       ELSE UNCHANGED <<invoked, calls>>
  /\ UNCHANGED lock_status

TalliedWait(t) == Wait(t) /\ TalliedIfReturned(t)

TalliedWaitUntil(t, tp) == WaitUntil(t, tp) /\ TalliedIfReturned(t)

TalliedWaitReturn(t) == WaitReturn(t) /\ TalliedIfReturned(t)

\* LockGuard<pthread_mutex_t> guard(raw): pthread_mutex_lock, status kept in
\* unlock_.
TalliedRawEnterScope(t) ==
  /\ RawEnterScope(t)
  /\ Tally({"LockGuard<pthread_mutex_t>"}, "pthread_mutex_lock",
           Attempts(guards'[t][Len(guards'[t])].status))
  /\ UNCHANGED lock_status

\* ~LockGuard<pthread_mutex_t>: pthread_mutex_unlock if unlock_.
TalliedRawLeaveScope(t) ==
  /\ RawLeaveScope(t)
  /\ Tally({"~LockGuard<pthread_mutex_t>"}, "pthread_mutex_unlock",
           last_dtor'[t].released * Attempts(EOK))
  /\ UNCHANGED lock_status

TalliedScopedThread_ctor(i) ==
  /\ ScopedThread_ctor(i)
  /\ Tally({"ScopedThread"}, "pthread_create", Attempts(create_status[i]))
  /\ UNCHANGED lock_status

\* ~ScopedThread is tallied when its pthread_join has returned.
TalliedScopedThread_dtor(i) ==
  /\ ScopedThread_dtor_returns(i)
  /\ Tally({"~ScopedThread"}, "pthread_join", Attempts(JoinStatusOf(i)))
  /\ UNCHANGED lock_status

\* State after construction with no native creation call checked:
\* pthread_mutex_init, pthread_cond_init and pthread_create may each have
\* failed.
InitOnce ==
  /\ InitCommon
  /\ InitGuard
  /\ InitRaw
  /\ InitThread
  /\ kind \in Kinds
  /\ mutex_init \in {EOK, ENOMEM}
  /\ cond_init \in {EOK, ENOMEM}
  /\ \E s \in {EOK, EAGAIN} : create_status = [i \in Threads |-> s]

NextOnce ==
  \/ \E t \in Threads : TalliedEnterScope(t)
  \/ \E t \in Threads : \E how \in ExitPaths : TalliedLeaveScope(t, how)
  \/ \E t \in Callers : TalliedNotifyOne(t)
  \/ \E t \in Callers : TalliedNotifyAll(t)
  \/ \E t \in Threads : TalliedWait(t)
  \/ \E t \in Threads : \E tp \in TimePoints : TalliedWaitUntil(t, tp)
  \/ \E t \in Threads : TalliedWaitReturn(t)
  \/ \E t \in Threads : RawBeginScope(t) /\ UNCHANGED callVars
  \/ \E t \in Threads : TalliedRawEnterScope(t)
  \/ \E t \in Threads : TalliedRawLeaveScope(t)
  \/ \E i \in Threads : TalliedScopedThread_ctor(i)
  \/ \E i \in Threads : EntryReturns(i) /\ UNCHANGED callVars
  \/ \E i \in Threads : ScopedThread_dtor_begins(i) /\ UNCHANGED callVars
  \/ \E i \in Threads : TalliedScopedThread_dtor(i)

SpecOnce == InitOnce /\ [][NextOnce]_vars

\* A step completes an invocation of wrapper operation w.
Invokes(w) == invoked'[w] = invoked[w] + 1

\* The calls of native function f a step makes.
StepCalls(f) == calls'[f] - calls[f]

\* C12 as stated: every invocation of a wrapper operation, of either
\* LockGuard destructor too, makes its native call exactly once.
C12_Original ==
  [][\A w \in Wrappers : Invokes(w) => StepCalls(NativeOf(w)) = 1]_vars

\* The guard a step destroys had acquired the raw mutex at construction.
DestroysAcquiredGuard ==
  \E t \in Threads :
    /\ Len(guards'[t]) < Len(guards[t])
    /\ guards[t][Len(guards[t])].unlock_

\* C12 as amended: no wrapper operation repeats its native call.  An
\* invocation makes the call exactly once, whatever status the call returns,
\* and makes no other native call; only ~LockGuard<pthread_mutex_t> makes no
\* call at all when the acquire of its constructor had failed.
C12_NoRetries ==
  [][\A w \in Wrappers :
       Invokes(w) =>
         /\ StepCalls(NativeOf(w)) =
              (IF w = "~LockGuard<pthread_mutex_t>" /\ ~DestroysAcquiredGuard THEN 0 ELSE 1)
         /\ \A f \in Natives \ {NativeOf(w)} : StepCalls(f) = 0]_vars

\* Two LockGuard<pthread_mutex_t> constructors made one native lock call
\* each, the second of which failed, and the destructor of that second guard
\* made no native call.
C12_Witness ==
  \E t \in Threads :
    /\ last_dtor[t].status \notin {EOK, NoStatus}
    /\ last_dtor[t].released = 0
    /\ invoked["LockGuard<pthread_mutex_t>"] = 2 /\ calls["pthread_mutex_lock"] = 2
    /\ invoked["~LockGuard<pthread_mutex_t>"] = 1 /\ calls["pthread_mutex_unlock"] = 0

\* C13, the destructor: a step in which a thread leaves a LockGuard<Mutex>
\* scope invokes Mutex::Unlock and makes one native unlock call, whether or
\* not the native lock call of the constructor had succeeded.
C13_ReleaseStep ==
  \A t \in Threads :
    (InScope(t) /\ pc'[t] = "idle") =>
      /\ Invokes("~LockGuard") /\ Invokes("Mutex::Unlock")
      /\ unlock_calls' = unlock_calls + 1
      /\ StepCalls("pthread_mutex_unlock") = 1

\* C13, the specialization: a guard destructor that makes no native unlock
\* call is that of a LockGuard<pthread_mutex_t> whose acquire had failed.
C13_OnlyRawSkips ==
  \A w \in {"~LockGuard", "~LockGuard<pthread_mutex_t>"} :
    (Invokes(w) /\ StepCalls("pthread_mutex_unlock") = 0)
      => (w = "~LockGuard<pthread_mutex_t>" /\ ~DestroysAcquiredGuard)

\* C13: the destructor of the generic LockGuard<M> always calls M::Unlock()
\* exactly once, also when the native lock call inside Mutex::Lock() had
\* failed at construction; only LockGuard<pthread_mutex_t> skips the release.
C13_UnconditionalRelease ==
  [][C13_ReleaseStep /\ C13_OnlyRawSkips]_vars

\* A LockGuard<Mutex> whose constructor's native lock call failed has been
\* destroyed, and its destructor made the native unlock call.
C13_Witness ==
  \E t \in Threads :
    /\ lock_status[t] = EINVAL
    /\ pc[t] = "idle" /\ path[t] \in ExitPaths
    /\ invoked["LockGuard"] = 1 /\ invoked["~LockGuard"] = 1
    /\ unlock_calls = 1 /\ calls["pthread_mutex_unlock"] = 1

\* C14, the thread: the ScopedThread constructor makes its pthread_create
\* call and leaves a constructed object whatever the call returned, with no
\* thread when it failed; and the destructor of a ScopedThread returns from
\* one pthread_join call, made on thread_ as it is.
C14_CreateUnchecked ==
  /\ Invokes("ScopedThread") =>
       /\ StepCalls("pthread_create") = 1
       /\ \E i \in Threads :
            /\ obj[i] = "unborn" /\ obj'[i] = "alive"
            /\ thread_'[i] = (IF create_status[i] = EOK THEN "running" ELSE "none")
  /\ \A i \in Threads :
       (obj[i] = "dtor" /\ obj'[i] = "dead") =>
         (Invokes("~ScopedThread") /\ StepCalls("pthread_join") = 1)

\* C14, the destructor: the owner of a constructed ScopedThread can always
\* enter its destructor, and so the pthread_join on thread_, started or not.
C14_JoinAttempted ==
  \A i \in Threads :
    (obj[i] = "alive" /\ OwnerRuns) => ENABLED ScopedThread_dtor_begins(i)

\* The wrapper operations on a Mutex or a ConditionVariable.
MutexCondWrappers ==
  {"Mutex::Lock", "Mutex::Unlock", "LockGuard", "~LockGuard",
   "NotifyOne", "NotifyAll", "Wait", "WaitUntil"}

\* C14, the Mutex and the ConditionVariable: an operation on an object whose
\* native init failed makes its native call like any other.
C14_StillForwarded ==
  \A w \in MutexCondWrappers : Invokes(w) => StepCalls(NativeOf(w)) = 1

\* C14, no error state: the notify operations stay callable whatever the
\* native init returned.
C14_StillCallable ==
  TotalCalls < MaxCalls => ENABLED TalliedNotifyOne(Main)

\* C14: construction failures are not checked.  A ScopedThread whose
\* pthread_create failed is constructed without an error and its destructor
\* still joins the never-started thread_; a Mutex or ConditionVariable whose
\* native init failed is constructed and its operations are still forwarded
\* to the native primitive.
C14_UncheckedConstruction ==
  /\ [][C14_CreateUnchecked /\ C14_StillForwarded]_vars
  /\ [](C14_JoinAttempted /\ C14_StillCallable)

\* The destructor of a ScopedThread whose pthread_create failed has returned
\* from its join call, and a thread has been through Mutex::Lock on a Mutex
\* whose pthread_mutex_init failed, the native lock call failing.
C14_Witness ==
  \E i, t \in Threads :
    /\ create_status[i] = EAGAIN /\ obj[i] = "dead" /\ thread_[i] = "none"
    /\ calls["pthread_create"] = 1 /\ calls["pthread_join"] = 1
    /\ mutex_init = ENOMEM /\ lock_status[t] = EINVAL /\ pc[t] = "cs"
    /\ calls["pthread_mutex_lock"] = 1

\* ScopedThread i is constructed and not yet destroyed.
Constructed(i) == obj[i] \in {"alive", "dtor"}

\* C15 as stated: a constructed ScopedThread has a started thread (there is
\* no constructed object whose thread never started), and a destroyed one a
\* joined thread.
C15_Original ==
  \A i \in Threads :
    /\ Constructed(i) => thread_[i] \in {"running", "terminated"}
    /\ obj[i] = "dead" => thread_[i] = "joined"

\* C15, the states: when pthread_create succeeded, the thread runs from the
\* construction on and is joined exactly when the destructor has returned;
\* when it failed, the object has no thread at any time.
C15_States ==
  \A i \in Threads :
    IF create_status[i] = EOK
      THEN /\ obj[i] = "unborn" <=> thread_[i] = "none"
           /\ Constructed(i) <=> thread_[i] \in {"running", "terminated"}
           /\ obj[i] = "dead" <=> thread_[i] = "joined"
      ELSE thread_[i] = "none"

\* C15, the steps: the thread starts in the step that constructs the object,
\* it ends only by its entry function returning, it is joined in the step in
\* which the destructor returns, and joined and destroyed are final.
C15_Steps ==
  \A i \in Threads :
    /\ thread_'[i] # thread_[i] =>
         \/ thread_[i] = "none" /\ thread_'[i] = "running"
              /\ obj[i] = "unborn" /\ obj'[i] = "alive"
         \/ thread_[i] = "running" /\ thread_'[i] = "terminated" /\ obj'[i] = obj[i]
         \/ thread_[i] = "terminated" /\ thread_'[i] = "joined"
              /\ obj[i] = "dtor" /\ obj'[i] = "dead"
    /\ obj[i] = "dead" => obj'[i] = "dead"
    /\ obj[i] = "dtor" => obj'[i] \in {"dtor", "dead"}

\* C15 as amended: when the native thread creation succeeds the thread is
\* started by construction itself, joined exactly once, at destruction, and
\* joined is final; when it fails the ScopedThread is constructed with a
\* thread that was never started, and never is.
C15_Lifecycle ==
  /\ []C15_States
  /\ [][C15_Steps]_vars

\* One ScopedThread has been destroyed, its thread joined, while another,
\* whose entry function has returned, is still alive and not joined.
C15_Witness ==
  \E i, j \in Threads :
    /\ i # j
    /\ obj[i] = "dead" /\ thread_[i] = "joined"
    /\ obj[j] = "alive" /\ thread_[j] = "terminated"

NotifyMethods == {"NotifyOne", "NotifyAll"}

\* C16, the notification: a notify call made while no thread is blocked on
\* the ConditionVariable leaves it with no thread blocked and changes no
\* thread's position.
C16_NoWaiterNoEffect ==
  \A t \in Callers : \A m \in NotifyMethods :
    (Calls(t, m) /\ cond_ = {}) =>
      /\ cond_' = {}
      /\ \A w \in Threads : pc'[w] = pc[w] /\ (w # t => wake'[w] = wake[w])

\* C16, the later wait: a thread is unblocked on behalf of a notify method
\* only in a step at whose start it was blocked on the ConditionVariable and
\* in which another thread calls that method.
C16_WokenOnlyIfBlocked ==
  \A w \in Threads :
    (pc'[w] = "woken" /\ wake'[w] \in NotifyMethods /\ pc[w] # "woken") =>
      /\ pc[w] = "wait" /\ w \in cond_
      /\ \E t \in Callers \ {w} : op'[t] = wake'[w]

\* C16, the ways out: a blocked Wait() ends only by such a notification or
\* by a spurious wakeup, a blocked WaitUntil() also by its timeout.
C16_WaitEndsOnlyBy ==
  \A w \in Threads :
    (pc[w] = "wait" /\ pc'[w] # "wait") =>
      /\ pc'[w] = "woken"
      /\ wake'[w] \in NotifyMethods \cup {"spurious"}
                      \cup (IF op[w] = "WaitUntil" THEN {"timeout"} ELSE {})

\* C16, the timed wait: a WaitUntil() ended by its timeout returns the
\* timeout status.
C16_TimeoutReturned ==
  \A w \in Threads :
    (pc[w] = "cs" /\ op[w] = "WaitUntil" /\ wake[w] = "timeout") => ret[w] = ETIMEDOUT

\* C16: notifications are not latched.  A notify call made while no thread
\* is blocked changes nothing, and a wait that starts afterwards is ended
\* only by a later notification, a spurious wakeup or, for WaitUntil(), the
\* timeout, which it then returns.
C16_NotLatched ==
  /\ [][C16_NoWaiterNoEffect /\ C16_WokenOnlyIfBlocked /\ C16_WaitEndsOnlyBy]_vars
  /\ []C16_TimeoutReturned

\* A NotifyAll() succeeded while nobody was blocked; a thread that called
\* Wait() afterwards is blocked, alone, on the ConditionVariable, and the
\* other thread's later WaitUntil() has returned the timeout status.
C16_Witness ==
  \E t, u \in Threads :
    /\ op[Main] = "NotifyAll" /\ ret[Main] = EOK
    /\ pc[t] = "wait" /\ op[t] = "Wait" /\ cond_ = {t}
    /\ pc[u] = "cs" /\ op[u] = "WaitUntil" /\ wake[u] = "timeout" /\ ret[u] = ETIMEDOUT

\* C17, the frame: a step in which a thread calls NotifyOne() or NotifyAll()
\* leaves the holder of the Mutex and the counts of native lock and unlock
\* calls as they were.
C17_HolderKept ==
  \A t \in Callers : \A m \in NotifyMethods :
    Calls(t, m) => UNCHANGED <<mutex_, lock_calls, unlock_calls>>

\* C17, the precondition: a thread that does not hold the Mutex can call
\* either method whoever holds the Mutex, and so can the thread that holds it.
C17_NeverBlocked ==
  /\ ENABLED (NotifyOne(Main) /\ UNCHANGED callVars)
  /\ ENABLED (NotifyAll(Main) /\ UNCHANGED callVars)
  /\ \A t \in Threads : mutex_ = t /\ pc[t] = "cs" =>
        /\ ENABLED (NotifyOne(t) /\ UNCHANGED callVars)
        /\ ENABLED (NotifyAll(t) /\ UNCHANGED callVars)

\* C17: NotifyOne() and NotifyAll() leave the Mutex untouched.  They can be
\* called with the Mutex free, held by the caller or held by another thread,
\* and its holder is the same before and after the call.
C17_MutexUntouched == [][C17_HolderKept]_vars /\ []C17_NeverBlocked

\* The holder of the Mutex has called NotifyAll() and still holds it, after
\* a thread that does not hold it called NotifyOne().
C17_Witness ==
  \E t \in Threads :
    /\ mutex_ = t /\ pc[t] = "cs" /\ op[t] = "NotifyAll" /\ ret[t] = EOK
    /\ op[Main] = "NotifyOne" /\ ret[Main] = EOK

\* A thread has finished: it has left the last of its LockGuard scopes.
Finished(t) == pc[t] = "idle" /\ scopes[t] = MaxScopes

AllFinished == \A t \in Threads : Finished(t)

\* C18, deadlock freedom: in every reachable state in which some thread has
\* not finished, some thread can take a step.
C18_NoDeadlock == AllFinished \/ ENABLED (NextGuard)

\* C18, the end: once all threads have finished the Mutex is free and the
\* LockGuards have made as many native unlock calls as native lock calls.
C18_Balanced ==
  AllFinished =>
    /\ mutex_ = NoThread
    /\ lock_calls = unlock_calls
    /\ lock_calls = NumThreads * MaxScopes

\* C18: threads that take one shared Mutex only through LockGuard scopes,
\* whose protected code terminates without blocking, never deadlock; under
\* fairness every thread finishes, and then the Mutex is free with native
\* lock and unlock calls equal in number.
C18_Progress ==
  /\ []C18_NoDeadlock
  /\ \A t \in Threads : <>[]Finished(t)
  /\ []C18_Balanced

\* All threads have finished, every way out of a scope having been taken by
\* some thread's last scope or the work done in it.
C18_Witness ==
  /\ AllFinished
  /\ mutex_ = NoThread
  /\ lock_calls = NumThreads * MaxScopes
  /\ unlock_calls = lock_calls
  /\ shared > 0
  /\ \E t \in Threads : path[t] = "throw"

\* The owner is inside the destructor of ScopedThread i holding the Mutex,
\* and the entry function is blocked in a LockGuard constructor on it.
Stuck(i) ==
  /\ obj[i] = "dtor"
  /\ thread_[i] = "running"
  /\ mutex_ = Main
  /\ pc[i] = "idle"
  /\ scopes[i] < MaxScopes

\* C19, termination: a destructor waiting for a thread whose entry function
\* has returned eventually returns.
C19_ReturnsOnceTerminated ==
  \A i \in Threads : (obj[i] = "dtor" /\ thread_[i] = "terminated") ~> (obj[i] = "dead")

\* C19, blocking: no step takes the owner out of the destructor of a
\* ScopedThread whose entry function has not returned.
C19_WaitsWhileRunning ==
  \A i \in Threads : (obj[i] = "dtor" /\ thread_[i] = "running") => obj'[i] = "dtor"

\* C19, the deadlock: once the entry function is blocked on the Mutex the
\* owner holds across the destruction it stays so, and when every running
\* thread is blocked that way no step is possible at all.
C19_StuckForever == \A i \in Threads : Stuck(i) => Stuck(i)'

C19_NothingEnabled ==
  (/\ \E i \in Threads : Stuck(i)
   /\ \A j \in Threads : thread_[j] = "running" => scopes[j] < MaxScopes)
    => ~ENABLED (NextJoin)

\* C19: the destructor of a ScopedThread whose thread was created returns
\* exactly when the thread terminates.  Under fairness it returns once the
\* entry function has returned; it does not return while the entry function
\* runs, and an entry function blocked on a Mutex the destroying thread
\* holds across the destruction leaves both blocked for ever.
C19_JoinTerminates ==
  /\ C19_ReturnsOnceTerminated
  /\ [][C19_WaitsWhileRunning /\ C19_StuckForever]_vars
  /\ []C19_NothingEnabled

\* One ScopedThread has been destroyed after its entry function returned,
\* and the destructor of the other is stuck: the owner holds the Mutex its
\* entry function waits for.
C19_Witness ==
  \E i, j \in Threads :
    /\ obj[i] = "dead" /\ thread_[i] = "joined" /\ scopes[i] = MaxScopes
    /\ Stuck(j)
    /\ ~ENABLED (NextJoin)

====
